---- MODULE Spec2Model ----
(***************************************************************************)
(* Local data-provider cache of PortfolioOptimizer.                        *)
(*                                                                         *)
(* Two revisions of the cache live side by side in the repository and      *)
(* address the same file, macro/cpi.csv:                                   *)
(*   - optimizer/storage.py: class DataProvider over LocalFrame            *)
(*     (sources_cpi.CPI_SOURCE = DataProvider(get_monthly_cpi, 'macro',    *)
(*     'cpi.csv'));                                                        *)
(*   - optimizer/getter/local_cpi.py: get_cpi / update_cpi / create_cpi.   *)
(*                                                                         *)
(* A table is a sequence of <<date, value>> rows.  Dates are day numbers,  *)
(* values are integer multiples of the absolute tolerance of np.allclose   *)
(* (1e-8): 0, 1 and 2 are a value, a value within tolerance of it and a    *)
(* value beyond tolerance of it.  An optional table is <<>> (no table) or  *)
(* <<t>>.                                                                  *)
(*                                                                         *)
(* Specifications:                                                         *)
(*   Spec           the two revisions of the CPI cache on macro/cpi.csv    *)
(*   SpecGone       Spec with a file that can be deleted                   *)
(*   SpecDamaged    the reads of Spec with a file that can be damaged      *)
(*   SpecProviders  a kept DataProvider instance next to other instances   *)
(*   SpecDividends  getter/source_dividends.py on dividends/<TICKER>.csv   *)
(*   SpecCodec      a table written by to_csv, edited, read by read_csv    *)
(*   SpecUrl        download/history.py: make_url on drawn arguments       *)
(*   SpecQuotes     Quote / Quotes page by page, then get_quotes_history   *)
(*   SpecGetDividends  get_dividends(['GAZP', 'SBERP'])                    *)
(***************************************************************************)
EXTENDS Integers, Sequences, FiniteSets, TLC

\* ------------------------------------------------------------------ bounds
MaxDate == 2
MaxAge == 2
\* blanks an editor adds to a file
MaxPad == 2
\* block positions make_url is asked for
MaxPosition == 2
\* rows the server puts on a page at most
MaxPage == 2
\* rows the server holds for a ticker at most
MaxRows == 3

\* --------------------------------------------------------------- constants
\* local_cpi.UPDATE_PERIOD_IN_DAYS
UPDATE_PERIOD_IN_DAYS == 1
\* np.allclose(a, b): |a - b| <= atol + rtol * |b| with atol = 1e-8 (one value
\* unit) and rtol = 1e-5 (1 / RTOL_DENOM)
ATOL_UNITS == 1
RTOL_DENOM == 100000

Dates == 1..MaxDate
Vals == {0, 1, 2}

\* sources_cpi.CPI_SOURCE and local_cpi.DATA_PATH: make_data_path('macro', 'cpi.csv')
CpiKey == "macro/cpi.csv"
Keys == {CpiKey}

None == <<>>
Some(t) == <<t>>

\* no Quote object built, no function called
NoQuote == [pc |-> "none"]
NoCall == [fn |-> "none"]

\* ------------------------------------------------------------------ tables
IndexSet(t) == {t[i][1] : i \in 1..Len(t)}
ValueAt(t, d) == (CHOOSE i \in 1..Len(t) : t[i][1] = d)
At(t, d) == t[ValueAt(t, d)][2]

StrictlyIncreasing(t) == \A i \in 1..Len(t) - 1 : t[i][1] < t[i + 1][1]

\* What the CPI downloader can return: a monthly series, one row per date,
\* dates ascending (download/cpi.py builds the index with DatetimeIndex(freq='M')
\* and drops the months without a value), down to no row at all.
Tables ==
    {t \in UNION {[1..n -> Dates \X Vals] : n \in 0..MaxDate} : StrictlyIncreasing(t)}

\* The external source either returns a table or raises.
DownloadResults ==
    {[ok |-> TRUE, df |-> t] : t \in Tables} \cup {[ok |-> FALSE, df |-> <<>>]}

\* A source that is not called.
NoFetch == [ok |-> FALSE, df |-> <<>>]

\* What the file system does with a write of df: it succeeds, it is refused
\* before the file is opened (permission), or it stops after n rows, before the
\* last one (disk full).
SaveOk == [kind |-> "ok", n |-> 0]
SaveOutcomes(df) ==
    {SaveOk, [kind |-> "denied", n |-> 0]}
        \cup {[kind |-> "partial", n |-> i] : i \in 0..Len(df) - 1}

Abs(x) == IF x < 0 THEN -x ELSE x

\* np.allclose element test, in value units
isclose(a, b) == Abs(a - b) * RTOL_DENOM <= ATOL_UNITS * RTOL_DENOM + Abs(b)

\* files[k]: the content of the file of key k, if it exists; age[k]: whole days
\* since its last write; providers: the keys a DataProvider instance exists
\* for; last: what the last call did and returned, and the file it found.
\* csv: one file as text, the table saved into it, and what the last save,
\* edit or load of the text gave.
\* quote: a Quote object of download/history.py, the server it asks and what
\* came out of it; call: a call of a function of its arguments alone, and its
\* result.
VARIABLES files, age, providers, last, csv, quote, call

vars == <<files, age, providers, last, csv, quote, call>>

\* the cache of the files
cache == <<files, age, providers, last>>

\* no text written yet
NoCsv ==
    [op |-> "start", table |-> <<>>, text |-> None, pads |-> 0,
     result |-> [err |-> "none", columns |-> <<>>, rows |-> <<>>]]

\* ----------------------------------------------------------- local storage
\* LocalFrame.exists
exists(k) == files[k] # None

\* LocalFrame.updated_days_ago, in whole days: Path(path).stat() raises when
\* there is no file
updated_days_ago(file, ag) ==
    IF file = None
    THEN [raised |-> "FileNotFoundError", value |-> 0]
    ELSE [raised |-> "none", value |-> ag]

\* LocalFrame.read_dataframe
read_dataframe(file) == file[1]

\* The date column is read through pd.to_datetime (converters={0: pd.to_datetime},
\* load_cpi: {DATE: pd.to_datetime}), which raises ValueError on a cell that is no
\* date.  Such a cell is the date 0.
Decodable(t) == \A i \in 1..Len(t) : t[i][1] \in Dates

\* LocalFrame.save / save_cpi: df.to_csv(path) opens the path for writing, which
\* truncates it, and then writes the rows one after another.
to_csv(file, ag, df, sv) ==
    CASE sv.kind = "ok" -> [file |-> Some(df), age |-> 0, err |-> "none"]
      [] sv.kind = "denied" -> [file |-> file, age |-> ag, err |-> "OSError"]
      [] sv.kind = "partial" ->
            [file |-> Some(SubSeq(df, 1, sv.n)), age |-> 0, err |-> "OSError"]

\* A result of one operation: the file and its age afterwards, and what the
\* caller saw.
Result(file, ag, err, calls, fetch, cand, validated, saved, ret) ==
    [file |-> file, age |-> ag, err |-> err, calls |-> calls, fetch |-> fetch,
     cand |-> cand, validated |-> validated, saved |-> saved, ret |-> ret]

Return(o, k, R) ==
    /\ files' = [files EXCEPT ![k] = R.file]
    /\ age' = [age EXCEPT ![k] = R.age]
    /\ last' = [op |-> o, key |-> k, err |-> R.err, calls |-> R.calls,
                fetch |-> R.fetch, cand |-> R.cand, validated |-> R.validated,
                saved |-> R.saved, ret |-> R.ret,
                file0 |-> files[k], age0 |-> age[k]]
    /\ UNCHANGED <<csv, quote, call>>

Init ==
    /\ files = [k \in Keys |-> None]
    /\ age = [k \in Keys |-> 0]
    /\ providers = {}
    /\ last = [op |-> "start", key |-> CpiKey, err |-> "none", calls |-> 0,
               fetch |-> "none", cand |-> None, validated |-> FALSE,
               saved |-> FALSE, ret |-> None, file0 |-> None, age0 |-> 0]
    /\ csv = NoCsv
    /\ quote = NoQuote
    /\ call = NoCall

\* Time passes: every stored file gets a day older.
Tick ==
    /\ \E k \in Keys : exists(k) /\ age[k] < MaxAge
    /\ age' = [k \in Keys |-> IF exists(k) /\ age[k] < MaxAge THEN age[k] + 1 ELSE age[k]]
    /\ last' = [op |-> "tick", key |-> CpiKey, err |-> "none", calls |-> 0,
                fetch |-> "none", cand |-> None, validated |-> FALSE,
                saved |-> FALSE, ret |-> None, file0 |-> files[CpiKey], age0 |-> age[CpiKey]]
    /\ UNCHANGED <<files, providers, csv, quote, call>>

\* The environment answers only what the operation asks: the source is drawn
\* when the operation calls it (dry is the operation with a source that is not
\* called), the outcome of the write when the operation reaches save (wet is
\* the operation with the source's answer and a write that succeeds).
Fetches(dry) == IF dry.calls = 0 THEN {NoFetch} ELSE DownloadResults
Writes(wet, dl) == IF wet.saved THEN SaveOutcomes(dl.df) ELSE {SaveOk}

\* ------------------------------------------------- storage.py: DataProvider
\* Faulty variants of the operations stand before the operations they vary: a
\* theorem about an operation has to fail when the variant takes its place.
\*
\* get_dataframe that brings a stale file up to date before reading it (the
\* source answers with the stored table).
get_dataframe_updating(file, ag) ==
    IF file = None
    THEN Result(file, ag, "FileNotFoundError", 0, "none", None, FALSE, FALSE, None)
    ELSE IF ag > UPDATE_PERIOD_IN_DAYS
    THEN Result(file, 0, "none", 1, "ok", file, FALSE, TRUE, Some(read_dataframe(file)))
    ELSE Result(file, ag, "none", 0, "none", None, FALSE, FALSE, Some(read_dataframe(file)))

\* DataProvider.get_dataframe
get_dataframe(file, ag) ==
    IF file = None
    THEN Result(file, ag, "FileNotFoundError", 0, "none", None, FALSE, FALSE, None)
    ELSE IF ~Decodable(read_dataframe(file))
    THEN Result(file, ag, "ValueError", 0, "none", None, FALSE, FALSE, None)
    ELSE Result(file, ag, "none", 0, "none", None, FALSE, FALSE, Some(read_dataframe(file)))

\* DataProvider.is_new_data_consistent: its first statement calls self.get(), and
\* DataProvider defines no attribute get (only get_dataframe), so the call raises
\* AttributeError before anything is compared.
is_new_data_consistent(file, new_df) == [raised |-> "AttributeError", value |-> FALSE]

\* update that swallows a failure of the source and goes on with an empty table.
update_best_effort(file, ag, must_validate, dl, sv) ==
    LET w == to_csv(file, ag, <<>>, sv)
    IN IF ~dl.ok
       THEN Result(w.file, w.age, w.err, 1, "fail", None, FALSE, TRUE, None)
       ELSE IF must_validate
       THEN Result(file, ag, "AttributeError", 1, "ok", Some(dl.df), TRUE, FALSE, None)
       ELSE Result(to_csv(file, ag, dl.df, sv).file, to_csv(file, ag, dl.df, sv).age,
                   to_csv(file, ag, dl.df, sv).err, 1, "ok", Some(dl.df), FALSE, TRUE, None)

\* DataProvider.update
update(file, ag, must_validate, dl, sv) ==
    IF ~dl.ok
    THEN Result(file, ag, "SourceError", 1, "fail", None, FALSE, FALSE, None)
    ELSE IF must_validate /\ is_new_data_consistent(file, dl.df).raised # "none"
    THEN Result(file, ag, is_new_data_consistent(file, dl.df).raised, 1, "ok",
                Some(dl.df), TRUE, FALSE, None)
    ELSE IF must_validate /\ ~is_new_data_consistent(file, dl.df).value
    THEN Result(file, ag, "ValueError", 1, "ok", Some(dl.df), TRUE, FALSE, None)
    ELSE LET w == to_csv(file, ag, dl.df, sv)
         IN Result(w.file, w.age, w.err, 1, "ok", Some(dl.df), must_validate, TRUE, None)

\* A constructor that does not look whether the file exists.
DataProvider_init_always(file, ag, dl, sv) == update(file, ag, FALSE, dl, sv)

\* A constructor that calls update() with must_validate left at its default.
DataProvider_init_validating(file, ag, dl, sv) ==
    IF file = None
    THEN update(file, ag, TRUE, dl, sv)
    ELSE Result(file, ag, "none", 0, "none", None, FALSE, FALSE, None)

\* DataProvider.__init__
DataProvider_init(file, ag, dl, sv) ==
    IF file = None
    THEN update(file, ag, FALSE, dl, sv)
    ELSE Result(file, ag, "none", 0, "none", None, FALSE, FALSE, None)

\* DataProvider(downloader, subfolder, filename): the instance exists when the
\* constructor returns normally.
NewDataProvider(k) ==
    \E dl \in Fetches(DataProvider_init(files[k], age[k], NoFetch, SaveOk)) :
        \E sv \in Writes(DataProvider_init(files[k], age[k], dl, SaveOk), dl) :
            LET R == DataProvider_init(files[k], age[k], dl, sv)
            IN /\ Return("init", k, R)
               /\ providers' = IF R.err = "none" THEN providers \cup {k} ELSE providers

\* provider.get_dataframe() on an instance (sources_cpi.get_cpi)
GetDataframe(k) ==
    /\ k \in providers
    /\ Return("get_dataframe", k, get_dataframe(files[k], age[k]))
    /\ UNCHANGED providers

\* provider.update() on an instance
Update(k) ==
    /\ k \in providers
    /\ \E dl \in Fetches(update(files[k], age[k], TRUE, NoFetch, SaveOk)) :
        \E sv \in Writes(update(files[k], age[k], TRUE, dl, SaveOk), dl) :
            Return("update", k, update(files[k], age[k], TRUE, dl, sv))
    /\ UNCHANGED providers

\* ------------------------------------------------------ getter/local_cpi.py
\* cpi_need_update
cpi_need_update(ag) == ag > UPDATE_PERIOD_IN_DAYS

\* validate that compares on the dates the two series share.
validate_common(df_old, df_updated, strict) ==
    IF \A d \in IndexSet(df_old) \cap IndexSet(df_updated) :
            isclose(At(df_old, d), At(df_updated, d))
    THEN "ok"
    ELSE "ValueError"

\* validate: np.allclose(df_old, df_updated[df_old.index]).  Selecting labels
\* the new series lacks depends on the pandas installed: it raises KeyError
\* (strict), or it fills them with NaN, and NaN is close to nothing.
validate(df_old, df_updated, strict) ==
    LET missing == IndexSet(df_old) \ IndexSet(df_updated)
    IN IF missing # {}
       THEN (IF strict THEN "KeyError" ELSE "ValueError")
       ELSE IF \A d \in IndexSet(df_old) : isclose(At(df_old, d), At(df_updated, d))
       THEN "ok"
       ELSE "ValueError"

\* update_cpi that returns the table it loaded, whatever it saved after that.
update_cpi_returning_loaded(file, ag, dl, sv, strict) ==
    LET df == read_dataframe(file)
    IN IF file = None
       THEN Result(file, ag, "FileNotFoundError", 0, "none", None, FALSE, FALSE, None)
       ELSE IF ~Decodable(df)
       THEN Result(file, ag, "ValueError", 0, "none", None, FALSE, FALSE, None)
       ELSE IF ~cpi_need_update(ag)
       THEN Result(file, ag, "none", 0, "none", None, FALSE, FALSE, Some(df))
       ELSE IF ~dl.ok
       THEN Result(file, ag, "SourceError", 1, "fail", None, FALSE, FALSE, None)
       ELSE IF validate(df, dl.df, strict) # "ok"
       THEN Result(file, ag, validate(df, dl.df, strict), 1, "ok",
                   Some(dl.df), TRUE, FALSE, None)
       ELSE LET w == to_csv(file, ag, dl.df, sv)
            IN Result(w.file, w.age, w.err, 1, "ok", Some(dl.df), TRUE, TRUE,
                      IF w.err = "none" THEN Some(df) ELSE None)

\* update_cpi that keeps the stored rows and appends the rows of the download
\* at dates the file does not have.
update_cpi_merging(file, ag, dl, sv, strict) ==
    LET df == read_dataframe(file)
        fresh == {i \in 1..Len(dl.df) : dl.df[i][1] \notin IndexSet(df)}
        merged[n \in 0..Len(dl.df)] ==
            IF n = 0 THEN df
            ELSE IF n \in fresh THEN Append(merged[n - 1], dl.df[n]) ELSE merged[n - 1]
    IN IF ~cpi_need_update(ag)
       THEN Result(file, ag, "none", 0, "none", None, FALSE, FALSE, Some(df))
       ELSE IF ~dl.ok
       THEN Result(file, ag, "SourceError", 1, "fail", None, FALSE, FALSE, None)
       ELSE IF validate(df, dl.df, strict) # "ok"
       THEN Result(file, ag, validate(df, dl.df, strict), 1, "ok",
                   Some(dl.df), TRUE, FALSE, None)
       ELSE LET w == to_csv(file, ag, merged[Len(dl.df)], sv)
            IN Result(w.file, w.age, w.err, 1, "ok", Some(dl.df), TRUE, TRUE,
                      IF w.err = "none" THEN Some(dl.df) ELSE None)

\* update_cpi: load_cpi comes first and raises when there is no file
update_cpi(file, ag, dl, sv, strict) ==
    LET df == read_dataframe(file)
    IN IF file = None
       THEN Result(file, ag, "FileNotFoundError", 0, "none", None, FALSE, FALSE, None)
       ELSE IF ~Decodable(df)
       THEN Result(file, ag, "ValueError", 0, "none", None, FALSE, FALSE, None)
       ELSE IF ~cpi_need_update(ag)
       THEN Result(file, ag, "none", 0, "none", None, FALSE, FALSE, Some(df))
       ELSE IF ~dl.ok
       THEN Result(file, ag, "SourceError", 1, "fail", None, FALSE, FALSE, None)
       ELSE IF validate(df, dl.df, strict) # "ok"
       THEN Result(file, ag, validate(df, dl.df, strict), 1, "ok",
                   Some(dl.df), TRUE, FALSE, None)
       ELSE LET w == to_csv(file, ag, dl.df, sv)
            IN Result(w.file, w.age, w.err, 1, "ok", Some(dl.df), TRUE, TRUE,
                      IF w.err = "none" THEN Some(dl.df) ELSE None)

\* create_cpi that returns the download without saving it.
create_cpi_unsaved(file, ag, dl, sv) ==
    IF ~dl.ok
    THEN Result(file, ag, "SourceError", 1, "fail", None, FALSE, FALSE, None)
    ELSE Result(file, ag, "none", 1, "ok", Some(dl.df), FALSE, FALSE, Some(dl.df))

\* create_cpi
create_cpi(file, ag, dl, sv) ==
    IF ~dl.ok
    THEN Result(file, ag, "SourceError", 1, "fail", None, FALSE, FALSE, None)
    ELSE LET w == to_csv(file, ag, dl.df, sv)
         IN Result(w.file, w.age, w.err, 1, "ok", Some(dl.df), FALSE, TRUE,
                   IF w.err = "none" THEN Some(dl.df) ELSE None)

\* get_cpi that rebuilds a file it cannot read from the source.
get_cpi_repairing(file, ag, dl, sv, strict) ==
    IF file # None /\ Decodable(read_dataframe(file))
    THEN update_cpi(file, ag, dl, sv, strict)
    ELSE create_cpi(file, ag, dl, sv)

\* get_cpi
get_cpi(file, ag, dl, sv, strict) ==
    IF file # None
    THEN update_cpi(file, ag, dl, sv, strict)
    ELSE create_cpi(file, ag, dl, sv)

\* The pandas installed shows only when labels are missing.
Getitems(file, dl) ==
    IF file # None /\ dl.ok /\ Decodable(read_dataframe(file)) /\ IndexSet(read_dataframe(file)) \ IndexSet(dl.df) # {}
    THEN BOOLEAN
    ELSE {FALSE}

GetCpi ==
    /\ \E dl \in Fetches(get_cpi(files[CpiKey], age[CpiKey], NoFetch, SaveOk, FALSE)) :
        \E strict \in Getitems(files[CpiKey], dl) :
            \E sv \in Writes(get_cpi(files[CpiKey], age[CpiKey], dl, SaveOk, strict), dl) :
                Return("get_cpi", CpiKey, get_cpi(files[CpiKey], age[CpiKey], dl, sv, strict))
    /\ UNCHANGED providers

Next ==
    \/ Tick
    \/ \E k \in Keys : NewDataProvider(k)
    \/ \E k \in Keys : GetDataframe(k)
    \/ \E k \in Keys : Update(k)
    \/ GetCpi

Spec == Init /\ [][Next]_vars

TypeOK ==
    /\ \A k \in Keys : files[k] = None \/ Len(files[k]) = 1
    /\ \A k \in Keys : age[k] \in 0..MaxAge
    /\ providers \subseteq Keys

\* ------------------------------------------- the files under other hands
\* What an environment step leaves in last.
Outside(o, k) ==
    [op |-> o, key |-> k, err |-> "none", calls |-> 0, fetch |-> "none",
     cand |-> None, validated |-> FALSE, saved |-> FALSE, ret |-> None,
     file0 |-> files[k], age0 |-> age[k]]

\* The file of a key is deleted.
RemoveFile(k) ==
    /\ exists(k)
    /\ files' = [files EXCEPT ![k] = None]
    /\ age' = [age EXCEPT ![k] = 0]
    /\ last' = Outside("remove", k)
    /\ UNCHANGED <<providers, csv, quote, call>>

\* An editor leaves a date cell of the file unreadable.
DamageFile(k) ==
    /\ exists(k)
    /\ Decodable(read_dataframe(files[k]))
    /\ \E i \in 1..Len(read_dataframe(files[k])) :
        files' = [files EXCEPT ![k] = Some([read_dataframe(files[k]) EXCEPT ![i][1] = 0])]
    /\ age' = [age EXCEPT ![k] = 0]
    /\ last' = Outside("damage", k)
    /\ UNCHANGED <<providers, csv, quote, call>>

\* provider.local_storage.updated_days_ago() on an instance
UpdatedDaysAgo(k) ==
    /\ k \in providers
    /\ Return("updated_days_ago", k,
              Result(files[k], age[k], updated_days_ago(files[k], age[k]).raised,
                     0, "none", None, FALSE, FALSE, None))
    /\ UNCHANGED providers

\* local_cpi.update_cpi() called by itself
UpdateCpi ==
    /\ \E dl \in Fetches(update_cpi(files[CpiKey], age[CpiKey], NoFetch, SaveOk, FALSE)) :
        \E strict \in Getitems(files[CpiKey], dl) :
            \E sv \in Writes(update_cpi(files[CpiKey], age[CpiKey], dl, SaveOk, strict), dl) :
                Return("update_cpi", CpiKey,
                       update_cpi(files[CpiKey], age[CpiKey], dl, sv, strict))
    /\ UNCHANGED providers

\* The cache with files that can disappear.
NextGone ==
    \/ Tick
    \/ \E k \in Keys : NewDataProvider(k)
    \/ \E k \in Keys : GetDataframe(k)
    \/ \E k \in Keys : Update(k)
    \/ \E k \in Keys : UpdatedDaysAgo(k)
    \/ GetCpi
    \/ UpdateCpi
    \/ \E k \in Keys : RemoveFile(k)

SpecGone == Init /\ [][NextGone]_vars

\* The cache with files that can be damaged.
NextDamaged ==
    \/ Tick
    \/ \E k \in Keys : NewDataProvider(k)
    \/ \E k \in Keys : GetDataframe(k)
    \/ GetCpi
    \/ \E k \in Keys : DamageFile(k)

SpecDamaged == Init /\ [][NextDamaged]_vars

\* ------------------------ getter/source_dividends.py, download/dividends.py
DIVIDENDS_FOLDER == "dividends"

\* the tickers a caller spells: one security, in lower and in upper case
Tickers == {"gazp", "GAZP"}

\* str.upper
upper(ticker) == IF ticker = "gazp" THEN "GAZP" ELSE ticker

\* storage.make_data_path(subfolder, filename)
make_data_path(subfolder, filename) == subfolder \o "/" \o filename

\* a file name that keeps the ticker as the caller spelled it
dividend_filename_verbatim(ticker) == ticker \o ".csv"

\* make_dividend_data_provider: filename = f'{ticker.upper()}.csv'
dividend_filename(ticker) == upper(ticker) \o ".csv"

\* the file of the LocalFrame of make_dividend_data_provider(ticker)
DividendKey(ticker) == make_data_path(DIVIDENDS_FOLDER, dividend_filename(ticker))

\* every file a spelling of the ticker could name
DivKeys == {make_data_path(DIVIDENDS_FOLDER, t \o ".csv") : t \in Tickers}

\* parse_table_rows: the rows of the dividends page, in the order of the page;
\* a page can carry two payments with one closing date
ParsedRows == UNION {[1..n -> Dates \X Vals] : n \in 0..MaxDate}

\* DataFrame.sort_index: insertion of a row after the rows not later than it
RECURSIVE sort_index(_)
sort_index(rows) ==
    IF rows = <<>>
    THEN <<>>
    ELSE LET head == sort_index(SubSeq(rows, 1, Len(rows) - 1))
             row == rows[Len(rows)]
             n == Cardinality({i \in 1..Len(head) : head[i][1] <= row[1]})
         IN SubSeq(head, 1, n) \o <<row>> \o SubSeq(head, n + 1, Len(head))

\* download.dividends.make_df
make_df(parsed_rows) == sort_index(parsed_rows)

\* download.dividends(ticker): a table, or the page cannot be had
DividendDownloads ==
    {[ok |-> TRUE, df |-> make_df(r)] : r \in ParsedRows} \cup {[ok |-> FALSE, df |-> <<>>]}

DividendFetches(dry) == IF dry.calls = 0 THEN {NoFetch} ELSE DividendDownloads

\* DataFrame.drop_duplicates: a row goes when an earlier row has its values (the
\* index does not count)
drop_duplicates(t) ==
    LET kept == {i \in 1..Len(t) : \A j \in 1..i - 1 : t[j][2] # t[i][2]}
        pick[n \in 0..Len(t)] ==
            IF n = 0 THEN <<>>
            ELSE IF n \in kept THEN Append(pick[n - 1], t[n]) ELSE pick[n - 1]
    IN pick[Len(t)]

\* get_dividend after the provider is built: get_dataframe().drop_duplicates()
get_dividend(file, ag) ==
    LET R == get_dataframe(file, ag)
    IN IF R.err # "none"
       THEN R
       ELSE [R EXCEPT !.ret = Some(drop_duplicates(read_dataframe(R.ret)))]

InitDividends ==
    /\ files = [k \in DivKeys |-> None]
    /\ age = [k \in DivKeys |-> 0]
    /\ providers = {}
    /\ last = [op |-> "start", key |-> DividendKey("GAZP"), err |-> "none", calls |-> 0,
               fetch |-> "none", cand |-> None, validated |-> FALSE,
               saved |-> FALSE, ret |-> None, file0 |-> None, age0 |-> 0]
    /\ csv = NoCsv
    /\ quote = NoQuote
    /\ call = NoCall

\* make_dividend_data_provider(ticker); providers holds the tickers an instance
\* exists for
MakeDividendDataProvider(ticker) ==
    LET k == DividendKey(ticker)
    IN \E dl \in DividendFetches(DataProvider_init(files[k], age[k], NoFetch, SaveOk)) :
        \E sv \in Writes(DataProvider_init(files[k], age[k], dl, SaveOk), dl) :
            LET R == DataProvider_init(files[k], age[k], dl, sv)
            IN /\ Return("init", k, R)
               /\ providers' = IF R.err = "none" THEN providers \cup {ticker} ELSE providers

\* provider.get_dataframe() on an instance built for ticker
GetDividendDataframe(ticker) ==
    /\ ticker \in providers
    /\ Return("get_dataframe", DividendKey(ticker),
              get_dataframe(files[DividendKey(ticker)], age[DividendKey(ticker)]))
    /\ UNCHANGED providers

\* get_dividend(ticker): builds a provider, reads through it and lets it go
GetDividend(ticker) ==
    LET k == DividendKey(ticker)
    IN \E dl \in DividendFetches(DataProvider_init(files[k], age[k], NoFetch, SaveOk)) :
        \E sv \in Writes(DataProvider_init(files[k], age[k], dl, SaveOk), dl) :
            LET R == DataProvider_init(files[k], age[k], dl, sv)
                G == get_dividend(R.file, R.age)
            IN /\ Return("get_dividend", k,
                         IF R.err # "none" THEN R ELSE [R EXCEPT !.err = G.err, !.ret = G.ret])
               /\ UNCHANGED providers

NextDividends ==
    \/ \E ticker \in Tickers : MakeDividendDataProvider(ticker)
    \/ \E ticker \in Tickers : GetDividendDataframe(ticker)
    \/ \E ticker \in Tickers : GetDividend(ticker)

SpecDividends == InitDividends /\ [][NextDividends]_vars

\* ---------------------------------- getter/source_dividends.py: get_dividends
\* the tickers of the call: get_dividends(['GAZP', 'SBERP'])
Requested == <<"GAZP", "SBERP">>
RequestedKeys == {DividendKey(Requested[i]) : i \in 1..Len(Requested)}

\* a cell pd.concat leaves without a value
NaN == -1

\* what a dividends file can hold: a download as make_df sorted it
StoredDividends == {make_df(r) : r \in ParsedRows}

\* get_dividend(ticker) on a file: the provider is built, read and let go
dividend_step(file, ag, dl, sv) ==
    LET R == DataProvider_init(file, ag, dl, sv)
        G == get_dividend(R.file, R.age)
    IN IF R.err # "none" THEN R ELSE [R EXCEPT !.err = G.err, !.ret = G.ret]

\* the index of a frame, row by row
index(frame) == [i \in 1..Len(frame) |-> frame[i][1]]

\* the rows of the outer join of frames with unique dates, for the dates not
\* before a date, in ascending order of date
RECURSIVE outer_join(_, _)
outer_join(frames, date) ==
    IF date > MaxDate THEN <<>>
    ELSE IF \A i \in 1..Len(frames) : date \notin IndexSet(frames[i])
    THEN outer_join(frames, date + 1)
    ELSE <<<<date, [i \in 1..Len(frames) |->
                      IF date \in IndexSet(frames[i]) THEN At(frames[i], date) ELSE NaN]>>>>
             \o outer_join(frames, date + 1)

\* pd.concat(ticker_dataframes, axis=1): frames with one index are put side by
\* side; frames with different indexes are joined on the union of their dates,
\* which pandas refuses when a frame carries a date twice
concat_columns(frames) ==
    IF \A i \in 1..Len(frames) : index(frames[i]) = index(frames[1])
    THEN [err |-> "none",
          df |-> [r \in 1..Len(frames[1]) |->
                    <<frames[1][r][1], [i \in 1..Len(frames) |-> frames[i][r][2]]>>]]
    ELSE IF \E i \in 1..Len(frames) : ~StrictlyIncreasing(frames[i])
    THEN [err |-> "InvalidIndexError", df |-> <<>>]
    ELSE [err |-> "none", df |-> outer_join(frames, 1)]

\* DataFrame.fillna(0)
fillna(df) ==
    [r \in 1..Len(df) |->
        <<df[r][1], [i \in 1..Len(df[r][2]) |-> IF df[r][2][i] = NaN THEN 0 ELSE df[r][2][i]]>>]

\* The files of the requested tickers, absent or as a creation left them.
InitGetDividends ==
    /\ files \in [RequestedKeys -> {None} \cup {Some(t) : t \in StoredDividends}]
    /\ age = [k \in RequestedKeys |-> 0]
    /\ providers = {}
    /\ last = [op |-> "start", key |-> DividendKey(Requested[1]), err |-> "none", calls |-> 0,
               fetch |-> "none", cand |-> None, validated |-> FALSE,
               saved |-> FALSE, ret |-> None, file0 |-> None, age0 |-> 0]
    /\ csv = NoCsv
    /\ quote = NoQuote
    /\ call = NoCall

\* the last get_dividend of the call, as last records a call
LastDividend(k, R) ==
    [op |-> "get_dividends", key |-> k, err |-> R.err, calls |-> R.calls,
     fetch |-> R.fetch, cand |-> R.cand, validated |-> R.validated,
     saved |-> R.saved, ret |-> R.ret, file0 |-> files[k], age0 |-> age[k]]

\* get_dividends(['GAZP', 'SBERP']): get_dividend for each ticker in turn, the
\* first failure ends the call; then pd.concat(..., axis=1).fillna(0)
GetDividends ==
    /\ call.fn = "none"
    /\ LET k1 == DividendKey(Requested[1])
           k2 == DividendKey(Requested[2])
       IN \E dl1 \in DividendFetches(DataProvider_init(files[k1], age[k1], NoFetch, SaveOk)) :
           \E sv1 \in Writes(DataProvider_init(files[k1], age[k1], dl1, SaveOk), dl1) :
               LET R1 == dividend_step(files[k1], age[k1], dl1, sv1)
               IN IF R1.err # "none"
                  THEN /\ files' = [files EXCEPT ![k1] = R1.file]
                       /\ age' = [age EXCEPT ![k1] = R1.age]
                       /\ last' = LastDividend(k1, R1)
                       /\ call' = [fn |-> "get_dividends", err |-> R1.err,
                                   frames |-> <<>>, result |-> <<>>]
                  ELSE \E dl2 \in DividendFetches(DataProvider_init(files[k2], age[k2], NoFetch, SaveOk)) :
                        \E sv2 \in Writes(DataProvider_init(files[k2], age[k2], dl2, SaveOk), dl2) :
                            LET R2 == dividend_step(files[k2], age[k2], dl2, sv2)
                                frames == <<R1.ret[1], R2.ret[1]>>
                                joined == concat_columns(frames)
                            IN /\ files' = [files EXCEPT ![k1] = R1.file, ![k2] = R2.file]
                               /\ age' = [age EXCEPT ![k1] = R1.age, ![k2] = R2.age]
                               /\ last' = LastDividend(k2, R2)
                               /\ call' =
                                    IF R2.err # "none"
                                    THEN [fn |-> "get_dividends", err |-> R2.err,
                                          frames |-> <<>>, result |-> <<>>]
                                    ELSE [fn |-> "get_dividends", err |-> joined.err,
                                          frames |-> frames, result |-> fillna(joined.df)]
    /\ UNCHANGED <<providers, csv, quote>>

NextGetDividends == GetDividends

SpecGetDividends == InitGetDividends /\ [][NextGetDividends]_vars

\* ------------------------------------- provider instances a caller keeps
\* A kept instance is written with the file it addresses and the table that was
\* in storage when its constructor returned.  DataProvider stores neither the
\* table nor anything read from it: its attributes are the downloader and the
\* LocalFrame, which is a path.
\*
\* get_dataframe that answers from a copy taken when the instance was built.
provider_get_dataframe_cached(self, file, ag) ==
    [get_dataframe(file, ag) EXCEPT !.ret = self.built]

\* DataProvider.get_dataframe(self)
provider_get_dataframe(self, file, ag) == get_dataframe(file, ag)

\* provider = DataProvider(downloader, subfolder, filename), kept by the caller
KeepDataProvider(k) ==
    /\ providers = {}
    /\ \E dl \in Fetches(DataProvider_init(files[k], age[k], NoFetch, SaveOk)) :
        \E sv \in Writes(DataProvider_init(files[k], age[k], dl, SaveOk), dl) :
            LET R == DataProvider_init(files[k], age[k], dl, sv)
            IN /\ Return("init", k, R)
               /\ providers' = IF R.err = "none"
                               THEN {[key |-> k, built |-> R.file]}
                               ELSE providers

\* DataProvider(downloader, subfolder, filename) once more for the same file,
\* by a caller that lets the instance go (as get_dividend does on every call)
BuildDataProvider(k) ==
    /\ \E dl \in Fetches(DataProvider_init(files[k], age[k], NoFetch, SaveOk)) :
        \E sv \in Writes(DataProvider_init(files[k], age[k], dl, SaveOk), dl) :
            Return("init", k, DataProvider_init(files[k], age[k], dl, sv))
    /\ UNCHANGED providers

\* provider.get_dataframe() on the kept instance
ReadKept ==
    /\ \E self \in providers :
        Return("get_dataframe", self.key,
               provider_get_dataframe(self, files[self.key], age[self.key]))
    /\ UNCHANGED providers

\* One instance is kept, others are built for the same file, and the file can
\* be deleted.
NextProviders ==
    \/ \E k \in Keys : KeepDataProvider(k)
    \/ \E k \in Keys : BuildDataProvider(k)
    \/ ReadKept
    \/ \E k \in Keys : RemoveFile(k)

SpecProviders == Init /\ [][NextProviders]_vars

\* ------------------------------------------------- a table as csv text
\* A text is a sequence of lines, a line a sequence of tokens: a comma, a blank,
\* or a word (a column name, a date, a number).
DATE == "DATE"
CPI == "CPI"
Comma == ","
Blank == " "

\* how to_csv writes a date of the index
format_date(d) == "2018-01-0" \o ToString(d)

\* to_csv with float_format='%.7f'
format_float_short(v) == "0.0000000"

\* how to_csv writes a float: repr, here of v * 1e-8
format_float(v) == IF v = 0 THEN "0.0" ELSE ToString(v) \o "e-08"

\* df.to_csv(path, index=True, header=True)
to_csv_text(t) ==
    <<<<DATE, Comma, CPI>>>>
        \o [i \in 1..Len(t) |-> <<format_date(t[i][1]), Comma, format_float(t[i][2])>>]

\* str.rstrip / str.strip of a field
rstrip(f) ==
    LET n == Cardinality({i \in 1..Len(f) : \E j \in i..Len(f) : f[j] # Blank})
    IN SubSeq(f, 1, n)
strip(f) ==
    LET r == rstrip(f)
        m == Cardinality({i \in 1..Len(r) : \A j \in 1..i : r[j] = Blank})
    IN SubSeq(r, m + 1, Len(r))

\* re.split(r'\s*,', line): the separator is a comma with the blanks before it
RECURSIVE split(_)
split(line) ==
    IF \A i \in 1..Len(line) : line[i] # Comma
    THEN <<line>>
    ELSE LET c == CHOOSE i \in 1..Len(line) :
                    line[i] = Comma /\ \A j \in 1..i - 1 : line[j] # Comma
         IN <<rstrip(SubSeq(line, 1, c - 1))>> \o split(SubSeq(line, c + 1, Len(line)))

\* pd.to_datetime of a field
to_datetime(f) ==
    LET w == strip(f)
    IN IF Len(w) = 1 /\ \E d \in Dates : format_date(d) = w[1]
       THEN [ok |-> TRUE, value |-> CHOOSE d \in Dates : format_date(d) = w[1]]
       ELSE [ok |-> FALSE, value |-> 0]

\* pd.to_numeric of a field, and the number parser of the python engine: blanks
\* around the digits are skipped
to_numeric(f) ==
    LET w == strip(f)
    IN IF Len(w) = 1 /\ \E v \in Vals : format_float(v) = w[1]
       THEN [ok |-> TRUE, value |-> CHOOSE v \in Vals : format_float(v) = w[1]]
       ELSE IF Len(w) = 1 /\ w[1] = "0.0000000"
       THEN [ok |-> TRUE, value |-> 0]
       ELSE [ok |-> FALSE, value |-> 0]

\* pd.read_csv(path, header=0, engine='python', sep='\s*,'): the names of the
\* header and the rows.  The date column has the converter pd.to_datetime.  The
\* value column has the converter pd.to_numeric (numeric), or none, and then a
\* cell that is no number stays the text it is.
read_csv(text, numeric) ==
    LET lines == text[1]
        fields == [i \in 1..Len(lines) |-> split(lines[i])]
        body == 2..Len(lines)
    IN IF text = None
       THEN [err |-> "FileNotFoundError", names |-> <<>>, rows |-> <<>>]
       ELSE IF \E i \in 1..Len(lines) : Len(fields[i]) # 2
       THEN [err |-> "ParserError", names |-> <<>>, rows |-> <<>>]
       ELSE IF \E i \in body :
                \/ ~to_datetime(fields[i][1]).ok
                \/ numeric /\ ~to_numeric(fields[i][2]).ok
       THEN [err |-> "ValueError", names |-> <<>>, rows |-> <<>>]
       ELSE [err |-> "none", names |-> fields[1],
             rows |-> [i \in 1..Len(lines) - 1 |->
                        <<to_datetime(fields[i + 1][1]).value,
                          IF to_numeric(fields[i + 1][2]).ok
                          THEN to_numeric(fields[i + 1][2]).value
                          ELSE fields[i + 1][2]>>]]

\* LocalFrame.read_dataframe applied to a text: the first column is the index,
\* the columns carry the names the header gives them
read_dataframe_text(text) ==
    LET df == read_csv(text, FALSE)
    IN IF df.err # "none"
       THEN [err |-> df.err, columns |-> <<>>, rows |-> <<>>]
       ELSE [err |-> "none", columns |-> Tail(df.names), rows |-> df.rows]

\* LocalFile.read and load_cpi applied to a text: df.set_index(DATE), df[CPI]
load_cpi(text) ==
    LET df == read_csv(text, TRUE)
    IN IF df.err # "none"
       THEN [err |-> df.err, columns |-> <<>>, rows |-> <<>>]
       ELSE IF df.names[1] # <<DATE>> \/ df.names[2] # <<CPI>>
       THEN [err |-> "KeyError", columns |-> <<>>, rows |-> <<>>]
       ELSE [err |-> "none", columns |-> <<<<CPI>>>>, rows |-> df.rows]

\* the tables that are saved: of the CPI source and of the dividends page
CodecTables == Tables \cup {make_df(r) : r \in ParsedRows}

\* A table to save, and no file yet.
InitCodec ==
    /\ files = [k \in Keys |-> None]
    /\ age = [k \in Keys |-> 0]
    /\ providers = {}
    /\ last = Outside("start", CpiKey)
    /\ \E t \in CodecTables : csv = [NoCsv EXCEPT !.table = t]
    /\ quote = NoQuote
    /\ call = NoCall

\* LocalFrame.save / LocalFile.save / save_cpi of the table
SaveText ==
    /\ csv' = [NoCsv EXCEPT !.op = "save", !.table = csv.table,
                            !.text = Some(to_csv_text(csv.table))]
    /\ UNCHANGED <<cache, quote, call>>

\* An editor aligns the columns: a blank goes in before or after a comma of a
\* line of the file.
PadText ==
    /\ csv.text # None
    /\ csv.pads < MaxPad
    /\ \E i \in 1..Len(csv.text[1]) :
        \E c \in {j \in 1..Len(csv.text[1][i]) : csv.text[1][i][j] = Comma} :
            \E at \in {c - 1, c} :
                LET line == csv.text[1][i]
                    padded == SubSeq(line, 1, at) \o <<Blank>> \o SubSeq(line, at + 1, Len(line))
                IN csv' = [csv EXCEPT !.op = "pad", !.pads = @ + 1,
                                      !.text = Some([csv.text[1] EXCEPT ![i] = padded])]
    /\ UNCHANGED <<cache, quote, call>>

\* LocalFrame.read_dataframe of the file
ReadDataframeText ==
    /\ csv' = [csv EXCEPT !.op = "read_dataframe", !.result = read_dataframe_text(csv.text)]
    /\ UNCHANGED <<cache, quote, call>>

\* LocalFile.read / load_cpi of the file
LoadCpi ==
    /\ csv' = [csv EXCEPT !.op = "load_cpi", !.result = load_cpi(csv.text)]
    /\ UNCHANGED <<cache, quote, call>>

NextCodec ==
    \/ SaveText
    \/ PadText
    \/ ReadDataframeText
    \/ LoadCpi

SpecCodec == InitCodec /\ [][NextCodec]_vars

\* ------------------------------------------ download/history.py: make_url
\* A url is a sequence of tokens: a slash, or a piece without a slash at its end.
Slash == "/"

\* Quote.base and Index.base, as they are and with a slash at the end
Bases ==
    {<<"https://iss.moex.com/iss/history/engines/stock/markets/shares/securities">>,
     <<"https://iss.moex.com/iss/history/engines/stock/markets/shares/securities", Slash>>}

\* What a caller can pass as start_date: None, a datetime.date, a str (empty
\* or not), an int (0 or not).
StartDates ==
    {[type |-> "NoneType", day |-> 0, text |-> ""]}
        \cup {[type |-> "date", day |-> d, text |-> ""] : d \in Dates}
        \cup {[type |-> "str", day |-> 0, text |-> x] : x \in {"", "2017-10-01"}}
        \cup {[type |-> "int", day |-> 0, text |-> x] : x \in {"0", "20171001"}}

\* bool(start_date)
truth(x) ==
    CASE x.type = "NoneType" -> FALSE
      [] x.type = "date" -> TRUE
      [] x.type = "str" -> x.text # ""
      [] x.type = "int" -> x.text # "0"

\* isinstance(start_date, datetime.date)
isdate(x) == x.type = "date"

\* f"{start_date:%Y-%m-%d}"
strftime(x) == "2017-10-0" \o ToString(x.day)

\* make_url
make_url(base, ticker, start_date, block_position) ==
    LET slashed == IF base = <<>> \/ base[Len(base)] # Slash
                   THEN base \o <<Slash>>
                   ELSE base
        start == "start=" \o ToString(block_position)
    IN IF truth(start_date) /\ ~isdate(start_date)
       THEN [raised |-> "TypeError", url |-> <<>>]
       ELSE [raised |-> "none",
             url |-> slashed \o <<ticker \o ".json", "?",
                                  IF truth(start_date)
                                  THEN start \o "&" \o "from=" \o strftime(start_date)
                                  ELSE start>>]

\* The arguments of one call of make_url.
InitUrl ==
    /\ files = [k \in Keys |-> None]
    /\ age = [k \in Keys |-> 0]
    /\ providers = {}
    /\ last = Outside("start", CpiKey)
    /\ csv = NoCsv
    /\ quote = NoQuote
    /\ \E base \in Bases, ticker \in {"GAZP", "MCFTRR"}, start_date \in StartDates,
          block_position \in 0..MaxPosition :
        call = [fn |-> "make_url", done |-> FALSE, base |-> base, ticker |-> ticker,
                start_date |-> start_date, block_position |-> block_position,
                result |-> [raised |-> "none", url |-> <<>>]]

MakeUrl ==
    /\ ~call.done
    /\ call' = [call EXCEPT !.done = TRUE,
                            !.result = make_url(call.base, call.ticker, call.start_date,
                                                call.block_position)]
    /\ UNCHANGED <<cache, csv, quote>>

NextUrl == MakeUrl

SpecUrl == InitUrl /\ [][NextUrl]_vars

\* ------------------------------------- download/history.py: Quote, Quotes
\* The server keeps the rows of a ticker, <<date, volume>> each, several trading
\* modes of one date among them, and answers a request for block position p
\* with the rows p + 1 .. p + size, fewer at the end, none beyond it.
Volumes == {1, 2}
QuoteRows == UNION {[1..n -> Dates \X Volumes] : n \in 0..MaxRows}

get_json(rows, size, block_position) ==
    SubSeq(rows, block_position + 1,
           IF block_position + size < Len(rows) THEN block_position + size ELSE Len(rows))

\* load that takes every empty page for an empty answer
load_any_empty(block_position, data) ==
    IF Len(data) = 0 THEN "ValueError" ELSE "none"

\* Quote.load / Quotes._validate: what it raises on the page just received
load(block_position, data) ==
    IF block_position = 0 /\ Len(data) = 0 THEN "ValueError" ELSE "none"

\* the cursor moved on by one row
advance_by_one(block_position, data) == block_position + 1

\* self.block_position += len(self)
advance(block_position, data) == block_position + Len(data)

\* pd.concat(gen, ignore_index=True): the rows of the pages, at positions 1..n
RECURSIVE concat(_)
concat(pages) ==
    IF pages = <<>> THEN <<>> ELSE Head(pages) \o concat(Tail(pages))

\* the positions of the rows of a date
group(df, date) == {i \in 1..Len(df) : df[i][1] = date}

\* the position of the smallest volume of a date
idxmin(df, date) ==
    CHOOSE i \in group(df, date) :
        \A j \in group(df, date) : df[j][2] > df[i][2] \/ (df[j][2] = df[i][2] /\ i <= j)

\* df.groupby('DATE')['VOLUME'].idxmax() at one date: the first position of
\* the largest volume of the date
idxmax(df, date) ==
    CHOOSE i \in group(df, date) :
        \A j \in group(df, date) : df[j][2] < df[i][2] \/ (df[j][2] = df[i][2] /\ i <= j)

\* df.iloc[ix].set_index('DATE').sort_index() for the dates not before a date:
\* groupby has the dates in ascending order, and so has the sorted result
RECURSIVE select(_, _)
select(df, date) ==
    IF date > MaxDate THEN <<>>
    ELSE IF group(df, date) = {} THEN select(df, date + 1)
    ELSE LET ix == idxmax(df, date)
         IN <<[ix |-> ix, DATE |-> date, VOLUME |-> df[ix][2]]>> \o select(df, date + 1)

\* get_quotes_history, from the pages the iteration gave
get_quotes_history(pages) == select(concat(pages), 1)

\* The two revisions, a server and no object yet.
InitQuotes ==
    /\ files = [k \in Keys |-> None]
    /\ age = [k \in Keys |-> 0]
    /\ providers = {}
    /\ last = Outside("start", CpiKey)
    /\ csv = NoCsv
    /\ call = NoCall
    /\ \E rev \in {"Quote", "Quotes"}, rows \in QuoteRows, size \in 1..MaxPage :
        quote = [pc |-> "new", rev |-> rev, rows |-> rows, size |-> size,
                 block_position |-> 0, data |-> <<>>, yielded |-> <<>>,
                 requests |-> <<>>, err |-> "none", history |-> None]

\* Quote(ticker, start_date) / Quotes(ticker, start_date): __init__ loads the
\* first page
NewQuote ==
    /\ quote.pc = "new"
    /\ LET data == get_json(quote.rows, quote.size, 0)
           err == load(0, data)
       IN quote' = [quote EXCEPT !.data = data, !.requests = <<0>>, !.err = err,
                                 !.pc = IF err = "none" THEN "loaded" ELSE "raised"]
    /\ UNCHANGED <<cache, csv, call>>

\* next() on the generator Quote.iterate(): it runs to its next yield or to
\* its end
Iterate ==
    /\ quote.rev = "Quote"
    /\ \/ /\ quote.pc = "loaded"
          /\ quote' = IF Len(quote.data) > 0
                      THEN [quote EXCEPT !.yielded = Append(@, quote.data), !.pc = "yielded"]
                      ELSE [quote EXCEPT !.pc = "done"]
       \/ /\ quote.pc = "yielded"
          /\ LET position == advance(quote.block_position, quote.data)
                 data == get_json(quote.rows, quote.size, position)
                 err == load(position, data)
             IN quote' = [quote EXCEPT
                    !.block_position = position, !.data = data,
                    !.requests = Append(@, position), !.err = err,
                    !.yielded = IF err = "none" /\ Len(data) > 0 THEN Append(@, data) ELSE @,
                    !.pc = IF err # "none" THEN "raised"
                           ELSE IF Len(data) > 0 THEN "yielded" ELSE "done"]
    /\ UNCHANGED <<cache, csv, call>>

\* Quotes.__next__
QuotesNext ==
    /\ quote.rev = "Quotes"
    /\ quote.pc = "loaded"
    /\ IF Len(quote.data) > 0
       THEN LET position == advance(quote.block_position, quote.data)
                data == get_json(quote.rows, quote.size, position)
                err == load(position, data)
            IN quote' = [quote EXCEPT
                   !.block_position = position, !.data = data,
                   !.requests = Append(@, position), !.err = err,
                   !.yielded = IF err = "none" THEN Append(@, quote.data) ELSE @,
                   !.pc = IF err = "none" THEN "loaded" ELSE "raised"]
       ELSE quote' = [quote EXCEPT !.pc = "done"]
    /\ UNCHANGED <<cache, csv, call>>

\* get_quotes_history after pd.concat has exhausted the iterator
GetQuotesHistory ==
    /\ quote.pc = "done"
    /\ quote.history = None
    /\ quote' = [quote EXCEPT !.history = Some(get_quotes_history(quote.yielded))]
    /\ UNCHANGED <<cache, csv, call>>

NextQuotes ==
    \/ NewQuote
    \/ Iterate
    \/ QuotesNext
    \/ GetQuotesHistory

\* pd.concat(gen) asks the iterator until it is exhausted.
SpecQuotes == InitQuotes /\ [][NextQuotes]_vars /\ WF_vars(NextQuotes)

\* ---------------------------------------------------------------- claims
\* The vocabulary of the claims, read off the last call.
Stored0 == last.file0 # None
Old == read_dataframe(last.file0)
New == read_dataframe(last.cand)
Fetched == last.fetch = "ok"
Stale0 == last.age0 > UPDATE_PERIOD_IN_DAYS
\* the call was a refresh of a stored key: provider.update(), or update_cpi
\* reached through get_cpi
Refresh == last.op \in {"update", "get_cpi"} /\ Stored0
\* the call created an absent key: the constructor, or create_cpi through get_cpi
Creation == last.op \in {"init", "get_cpi"} /\ ~Stored0
Unchanged == files[last.key] = last.file0 /\ age[last.key] = last.age0
\* beyond tolerance: more than one value unit apart
Beyond(a, b) == Abs(a - b) > ATOL_UNITS
MissingHistory == IndexSet(Old) \ IndexSet(New) # {}
Drift == \E d \in IndexSet(Old) \cap IndexSet(New) : Beyond(At(Old, d), At(New, d))

\* C1: a refresh of a stored key whose download has every stored date and, at
\* one of them, a value beyond tolerance of the stored one fails with the
\* data-drift error (the ValueError of update / validate), the file and its age
\* are what they were, and save is not executed.
C1_DriftRejected ==
    (Refresh /\ Fetched /\ ~MissingHistory /\ Drift)
        => (last.err = "ValueError" /\ Unchanged /\ ~last.saved)

\* C2: a refresh of a stored key calls the source zero times and writes nothing
\* when the file is at most max_age_days old, and calls it exactly once when
\* the file is older.
C2_FreshnessGate ==
    Refresh =>
        IF Stale0
        THEN last.calls = 1
        ELSE last.calls = 0 /\ ~last.saved /\ Unchanged

\* C3 as claimed: a read of a stored key never calls the source, whatever the
\* age of the file.
C3_ReadNeverFetches ==
    (last.op \in {"get_dataframe", "get_cpi"} /\ Stored0) => last.calls = 0

\* C3 as amended: DataProvider.get_dataframe of a stored key never calls the
\* source, whatever the age of the file; local_cpi.get_cpi of a stored key
\* calls it once when the file is older than UPDATE_PERIOD_IN_DAYS and not at
\* all otherwise.
C3_ReadFetchesOnlyStaleCpi ==
    /\ (last.op = "get_dataframe" /\ Stored0)
            => (last.calls = 0 /\ last.fetch = "none" /\ Unchanged)
    /\ (last.op = "get_cpi" /\ Stored0)
            => last.calls = (IF Stale0 THEN 1 ELSE 0)

\* a provider read a stale file and called nobody
C3_Witness ==
    /\ last.op = "get_dataframe" /\ Stored0 /\ Stale0
    /\ last.calls = 0 /\ last.err = "none" /\ last.ret = last.file0

\* C4: a constructor that finds the key absent calls the source exactly once
\* and, when it returns normally, has stored what the source returned; a
\* constructor that finds the key stored calls nobody and leaves the file as it
\* is: so successive constructions fetch once and the later ones change nothing.
C4_IdempotentInit ==
    last.op = "init" =>
        IF Stored0
        THEN last.calls = 0 /\ ~last.saved /\ last.err = "none" /\ Unchanged
        ELSE /\ last.calls = 1
             /\ last.err = "none" =>
                    (files[last.key] = last.cand /\ last.cand # None
                        /\ last.key \in providers)

\* a second construction: the file was there with rows in it, nothing was fetched
C4_Witness ==
    /\ last.op = "init" /\ Stored0 /\ Len(Old) > 0
    /\ last.calls = 0 /\ Unchanged /\ last.key \in providers

\* C5 as claimed: the first get of an absent key fetches once and stores exactly
\* the rows fetched; every later get returns the stored rows and fetches nothing.
C5_EndToEnd ==
    /\ (Creation /\ last.err = "none")
            => (last.calls = 1 /\ files[last.key] = last.cand /\ last.cand # None)
    /\ (last.op = "get_cpi" /\ ~Stored0 /\ last.err = "none") => last.ret = last.cand
    /\ (last.op \in {"get_dataframe", "get_cpi"} /\ Stored0)
            => (last.calls = 0 /\ last.ret = last.file0 /\ Unchanged)

\* C5 as amended: as claimed, except that a later local_cpi.get_cpi returns the
\* stored rows without a fetch only while the file is at most
\* UPDATE_PERIOD_IN_DAYS old.
C5_EndToEndWhileFresh ==
    /\ (Creation /\ last.err = "none")
            => (last.calls = 1 /\ files[last.key] = last.cand /\ last.cand # None)
    /\ (last.op = "get_cpi" /\ ~Stored0 /\ last.err = "none") => last.ret = last.cand
    /\ (last.op = "get_dataframe" /\ Stored0)
            => (last.calls = 0 /\ last.ret = last.file0 /\ Unchanged)
    /\ (last.op = "get_cpi" /\ Stored0 /\ ~Stale0)
            => (last.calls = 0 /\ last.ret = last.file0 /\ Unchanged)

\* a later get_cpi of a fresh file returned all its rows and fetched nothing
C5_Witness ==
    /\ last.op = "get_cpi" /\ Stored0 /\ ~Stale0 /\ Len(Old) = MaxDate
    /\ last.calls = 0 /\ last.ret = last.file0 /\ Unchanged

\* C6: the validator runs only in a refresh of a stored key; a creation saves
\* the download without validating it, and a read that fetches nothing
\* validates nothing.
C6_ValidatorOnlyInRefresh ==
    /\ last.validated => (Refresh /\ last.calls = 1)
    /\ (Creation /\ Fetched) => (~last.validated /\ last.saved)
    /\ (Creation /\ Fetched /\ last.err = "none") => files[last.key] = last.cand
    /\ last.op = "get_dataframe" => ~last.validated
    /\ last.calls = 0 => ~last.validated

\* a constructor created the file from a download with rows, unvalidated
C6_Witness ==
    /\ last.op = "init" /\ ~Stored0 /\ Fetched /\ last.err = "none"
    /\ ~last.validated /\ last.saved /\ Len(New) > 0 /\ files[last.key] = last.cand

C8_EmptyFirstFetchRejected ==
    (Creation /\ Fetched /\ New = <<>>)
        => (last.err # "none" /\ files[last.key] = None)

\* C9: when the source fails, the call ends with that error after exactly one
\* call of the source, and the file and its age are what they were.
C9_SourceFailurePropagates ==
    last.fetch = "fail"
        => (last.err = "SourceError" /\ last.calls = 1 /\ last.ret = None
                /\ ~last.saved /\ Unchanged)

\* provider.update() of a stored table met a failing source
C9_Witness ==
    /\ last.op = "update" /\ last.fetch = "fail" /\ Stored0 /\ Len(Old) > 0
    /\ last.err = "SourceError" /\ Unchanged

\* C10: a save that fails leaves the rows the key had before it: a read after
\* the failure returns the complete old table.
C10_FailedSaveKeepsOld ==
    (last.saved /\ last.err = "OSError" /\ Stored0 /\ Len(Old) > 0)
        => files[last.key] = last.file0
\* C11: every stored table has strictly increasing dates, the tables created
\* from a dividends page that carries one date twice included.
C11_StrictlyIncreasingAtRest ==
    \A k \in DOMAIN files : files[k] # None => StrictlyIncreasing(read_dataframe(files[k]))

\* C12: after a refresh that fetched and ended without error the file holds
\* the download, row for row, and nothing else.
C12_WholeTableReplaced ==
    (Refresh /\ Fetched /\ last.err = "none")
        => (last.saved /\ files[last.key] = last.cand /\ age[last.key] = 0)

\* a refresh replaced a stored value by a different one within tolerance and
\* brought a date the file did not have
C12_Witness ==
    /\ Refresh /\ Fetched /\ last.err = "none"
    /\ \E d \in IndexSet(Old) : At(Old, d) # At(New, d)
    /\ IndexSet(New) \ IndexSet(Old) # {}
    /\ files[last.key] = last.cand

\* C13: when a refresh has just fetched, saved a table with rows and ended
\* without error, a refresh issued as the next call does not call the source, does not write and
\* leaves the file as it is.
C13_RefreshThenNoOp ==
    [][(Refresh /\ Fetched /\ last.err = "none" /\ Len(New) > 0
            /\ last'.op \in {"update", "get_cpi"})
        => (last'.calls = 0 /\ ~last'.saved
            /\ files'[last.key] = files[last.key] /\ age'[last.key] = age[last.key])]_vars

\* C14: a read of a key whose file is not there at the call (never created,
\* or gone since the provider was built) calls the source once, does not end in
\* the not-found error, and when it ends without error returns the download,
\* which is then the stored table.
C14_AbsentReadInitializes ==
    (last.op \in {"get_dataframe", "get_cpi"} /\ ~Stored0)
        => /\ last.err # "FileNotFoundError"
           /\ last.calls = 1
           /\ last.err = "none" => (last.ret = last.cand /\ files[last.key] = last.cand)

\* C19: on a key with no file updated_days_ago raises the not-found error, and
\* a refresh of such a key ends in an error without a call of the source and
\* without a file.
C19_AbsentKeyHasNoAge ==
    /\ (last.op = "updated_days_ago" /\ ~Stored0) => last.err = "FileNotFoundError"
    /\ (last.op \in {"update", "update_cpi"} /\ ~Stored0)
        => (last.err # "none" /\ last.calls = 0 /\ files[last.key] = None)

\* C20: a load of a file with a date cell that cannot be read ends in an error,
\* returns nothing, calls the source not at all and leaves the file and its age
\* as they were.
C20_UndecodableSurfaced ==
    (last.op \in {"get_dataframe", "get_cpi"} /\ Stored0 /\ ~Decodable(Old))
        => (last.err = "ValueError" /\ last.ret = None /\ last.calls = 0
            /\ ~last.saved /\ Unchanged)

\* get_cpi found a stale file it could not read and did not fetch
C20_Witness ==
    /\ last.op = "get_cpi" /\ Stored0 /\ ~Decodable(Old) /\ Stale0
    /\ Len(Old) = MaxDate
    /\ last.err = "ValueError" /\ last.calls = 0 /\ Unchanged

\* C18: whatever the case of the ticker a provider is built for, it addresses
\* the file named by the upper-case ticker: no other file is ever created, and
\* a construction calls the source only when that file is absent.
C18_UppercasedKey ==
    /\ \A k \in DOMAIN files :
        files[k] # None => k = make_data_path(DIVIDENDS_FOLDER, "GAZP.csv")
    /\ last.op \in {"init", "get_dividend"}
        => /\ last.key = make_data_path(DIVIDENDS_FOLDER, "GAZP.csv")
           /\ Stored0 => (last.calls = 0 /\ Unchanged)
           /\ last.calls = 1 => ~Stored0

\* providers exist for both spellings, one file is stored, and the last
\* construction found it and did not download
C18_Witness ==
    /\ providers = {"gazp", "GAZP"}
    /\ last.op = "init" /\ Stored0 /\ Len(Old) > 0 /\ last.calls = 0
    /\ files[make_data_path(DIVIDENDS_FOLDER, "gazp.csv")] = None
    /\ files[make_data_path(DIVIDENDS_FOLDER, "GAZP.csv")] = last.file0

\* C17: a read through a kept provider instance that ends without error
\* returns the table that is in storage at the read, whatever was there when
\* the instance was built.
C17_ReadsStorage ==
    (last.op = "get_dataframe" /\ last.err = "none")
        => (last.ret = files[last.key] /\ last.ret = last.file0 /\ last.calls = 0)

\* the kept instance returned a table that another instance downloaded and
\* stored after the kept one was built
C17_Witness ==
    /\ last.op = "get_dataframe" /\ last.err = "none"
    /\ \E self \in providers :
        /\ self.key = last.key
        /\ self.built # files[last.key]
        /\ Len(read_dataframe(self.built)) > 0
    /\ Len(read_dataframe(last.ret)) > 0
    /\ last.ret = files[last.key]

\* C15: a load of a file as the save wrote it returns the saved table: the
\* same dates in the same order, the same values, under the saved column name.
C15_RoundTrip ==
    (csv.op \in {"read_dataframe", "load_cpi"} /\ csv.text # None /\ csv.pads = 0)
        => /\ csv.result.err = "none"
           /\ csv.result.rows = csv.table
           /\ csv.result.columns = <<<<CPI>>>>

\* a table with one date twice and different values came back as saved
C15_Witness ==
    /\ csv.op = "read_dataframe" /\ csv.pads = 0
    /\ Len(csv.table) = MaxDate
    /\ \E i, j \in 1..Len(csv.table) :
        i < j /\ csv.table[i][1] = csv.table[j][1] /\ csv.table[i][2] > csv.table[j][2]
    /\ csv.result.rows = csv.table

\* C16: a load of a file with blanks added before and after commas gives what
\* the load of the text without the blanks gives.
C16_PaddingIgnored ==
    /\ (csv.op = "read_dataframe" /\ csv.pads > 0)
        => csv.result = read_dataframe_text(Some(to_csv_text(csv.table)))
    /\ (csv.op = "load_cpi" /\ csv.pads > 0)
        => csv.result = load_cpi(Some(to_csv_text(csv.table)))

\* C21: make_url gives '<base>/<ticker>.json?start=<block_position>', with
\* '&from=<YYYY-MM-DD>' after it when a start date is given and only then; the
\* base may end in a slash or not; a start date that is not a date and not None
\* raises TypeError.
C21_MakeUrl ==
    call.done =>
        LET stem == <<"https://iss.moex.com/iss/history/engines/stock/markets/shares/securities",
                      Slash, call.ticker \o ".json", "?">>
            start == "start=" \o ToString(call.block_position)
        IN CASE call.start_date.type = "NoneType" ->
                    call.result = [raised |-> "none", url |-> stem \o <<start>>]
             [] call.start_date.type = "date" ->
                    call.result =
                        [raised |-> "none",
                         url |-> stem \o <<start \o "&from=2017-10-0"
                                               \o ToString(call.start_date.day)>>]
             [] OTHER -> call.result.raised = "TypeError"

\* the rows of a sequence of pages, in order
RECURSIVE Flatten(_)
Flatten(pages) ==
    IF pages = <<>> THEN <<>> ELSE Head(pages) \o Flatten(Tail(pages))

\* the page the server gave to the i-th request of the object
Received(i) == get_json(quote.rows, quote.size, quote.requests[i])

\* the rows received before the i-th request
ReceivedBefore(i) == Flatten([j \in 1..(i - 1) |-> Received(j)])

Paginated ==
    /\ \A i \in 1..Len(quote.requests) : quote.requests[i] = Len(ReceivedBefore(i))
    /\ \A i \in 1..Len(quote.yielded) :
        /\ Len(quote.yielded[i]) > 0
        /\ quote.yielded[i] = Received(i)
    /\ quote.pc = "done" =>
        /\ quote.data = <<>>
        /\ Len(quote.requests) = Len(quote.yielded) + 1
        /\ Flatten(quote.yielded) = quote.rows

\* C22: on a server with rows, the iteration over the pages ends, at the first
\* empty page; by then every page with rows was yielded once, in the order of
\* the server, so that the yielded rows are the rows of the server; and every
\* request asks for the offset that is the number of rows received before it.
C22_PaginatedFetch ==
    /\ []Paginated
    /\ Len(quote.rows) > 0 => <>(quote.pc = "done")

C22_Witness ==
    /\ quote.pc = "done"
    /\ Len(quote.yielded) >= 2
    /\ Len(quote.yielded[Len(quote.yielded)]) < quote.size

\* C23: an empty first page raises ValueError with nothing yielded and nothing
\* more requested; an empty page at a later offset raises nothing, and the
\* iteration that has ended has ended on such a page without an error.
C23_EmptyPages ==
    /\ quote.pc # "new" /\ quote.rows = <<>> =>
        /\ quote.pc = "raised"
        /\ quote.err = "ValueError"
        /\ quote.yielded = <<>>
        /\ quote.requests = <<0>>
    /\ quote.pc # "new" /\ quote.rows # <<>> =>
        /\ quote.pc # "raised"
        /\ quote.err = "none"
    /\ quote.pc = "done" =>
        /\ Len(quote.requests) >= 2
        /\ quote.data = <<>>
        /\ quote.err = "none"

C23_Witness ==
    /\ quote.pc = "raised"
    /\ quote.requests = <<0>>
    /\ quote.data = <<>>

\* C24: get_quotes_history returns one row for every date of the concatenated
\* pages and for no other date, that row is a row of the date with the largest
\* volume of the date, and the rows are in strictly ascending order of date.
C24_MaxVolumePerDate ==
    quote.history # None =>
        LET df == Flatten(quote.yielded)
            h == quote.history[1]
        IN /\ {h[i].DATE : i \in 1..Len(h)} = {df[j][1] : j \in 1..Len(df)}
           /\ \A i \in 1..(Len(h) - 1) : h[i].DATE < h[i + 1].DATE
           /\ \A i \in 1..Len(h) :
               /\ h[i].ix \in 1..Len(df)
               /\ df[h[i].ix] = <<h[i].DATE, h[i].VOLUME>>
               /\ \A j \in 1..Len(df) : df[j][1] = h[i].DATE => df[j][2] <= h[i].VOLUME

C24_Witness ==
    /\ quote.history # None
    /\ Len(quote.history[1]) = 2
    /\ Len(quote.yielded) = 2
    /\ Len(quote.rows) = 3
    /\ quote.rows[1][1] > quote.rows[3][1]
    /\ quote.rows[2][1] = quote.rows[3][1]
    /\ quote.rows[2][2] < quote.rows[3][2]

\* the table in storage for the i-th requested ticker
StoredFor(i) == read_dataframe(files[DividendKey(Requested[i])])

\* C25: when get_dividends returns a table for tickers whose stored tables have
\* one row per date, the table has a column for every requested ticker and a
\* row for every date stored for any of them and for no other date; the value
\* at a date and a ticker is the dividend stored for the ticker on the date, and
\* 0 when the ticker has none; so no stored payment is missing from it.
C25_GetDividends ==
    (/\ call.fn = "get_dividends"
     /\ call.err = "none"
     /\ \A i \in 1..Len(Requested) : StrictlyIncreasing(StoredFor(i)))
        => LET df == call.result
           IN /\ \A r \in 1..Len(df) : Len(df[r][2]) = Len(Requested)
              /\ {df[r][1] : r \in 1..Len(df)}
                    = UNION {IndexSet(StoredFor(i)) : i \in 1..Len(Requested)}
              /\ \A r \in 1..Len(df) : \A i \in 1..Len(Requested) :
                    df[r][2][i] = IF df[r][1] \in IndexSet(StoredFor(i))
                                  THEN At(StoredFor(i), df[r][1])
                                  ELSE 0

\* C26: whatever call is made on a stored key, creation, read or refresh, ended
\* well or not, the key stays stored with every date it had; and after a
\* refresh that saved and ended without error the value at each of these dates
\* is within tolerance of the value before.
C26_HistoryNeverLost ==
    [][\A k \in Keys :
        files[k] # None =>
            /\ files'[k] # None
            /\ IndexSet(read_dataframe(files[k])) \subseteq IndexSet(read_dataframe(files'[k]))
            /\ (last'.saved /\ last'.err = "none" /\ last'.key = k) =>
                \A d \in IndexSet(read_dataframe(files[k])) :
                    isclose(At(read_dataframe(files[k]), d), At(read_dataframe(files'[k]), d))]_vars

\* C27: when get_cpi returns normally, what it returns is the table the file
\* holds when it returns: after the creation of an absent file, after the
\* refresh of a stale file, and after the read of a fresh one.
C27_ReturnsWhatIsStored ==
    (last.op = "get_cpi" /\ last.err = "none")
        => /\ last.ret # None
           /\ last.ret = files[last.key]
           /\ (Creation \/ (Refresh /\ Stale0)) => (Fetched /\ last.saved)
           /\ (Refresh /\ ~Stale0) => (~Fetched /\ ~last.saved)

\* a refresh of a stale file saved a table that differs from the one it found,
\* and returned the table it saved
C27_Witness ==
    /\ last.op = "get_cpi" /\ Stored0 /\ Stale0 /\ last.err = "none"
    /\ last.saved /\ Len(New) > Len(Old) /\ Len(Old) > 0
    /\ last.ret = last.cand /\ last.ret # last.file0
    /\ files[last.key] = last.ret
====
